---- MODULE Spec2Model ----
(***************************************************************************)
(* A model of GroopM's data layer (groopm/mstore.py): the k-mer signature  *)
(* engine, the FASTA/FASTQ contig parser, the BAM coverage parser and the  *)
(* GMDataManager operations on the HDF5 database.                          *)
(*                                                                         *)
(* Strings are sequences of one-character strings.  Floating point values  *)
(* are exact rationals [num, den].  The HDF5 file is a function from the   *)
(* names of the tables it holds to [cols, rows].                           *)
(***************************************************************************)
EXTENDS Integers, Sequences, FiniteSets, TLC

VARIABLES
    contigFile,   \* createDB argument: the lines of the contig file
    bamFiles,     \* createDB argument: the BAM paths, in order
    kmerSize,     \* createDB argument
    force,        \* createDB argument
    option,       \* what raw_input returns when the overwrite prompt is shown
    sigOrder,     \* iteration order of the dict built in getKSig (build dependent)
    ioFail,       \* the createDB step at which the store raises, or "none"
    dbExists,     \* does the database file exist on disk
    db,           \* the tables of the database file: name -> [cols, rows]
    pc,           \* position of the running operation
    contigNames,  \* createDB local: cid -> length, returned by ContigParser.parse
    updates,      \* argument of the running set* operation
    todo,         \* keys of updates still to be processed by the running loop
    ret,          \* what the last finished operation returned or raised
    nOps,         \* how many operations were started on the database
    handles,      \* the files the process holds open
    arg,          \* the argument of a function applied on its own
    res           \* the result of a function applied on its own

vars == <<contigFile, bamFiles, kmerSize, force, option, sigOrder, ioFail,
          dbExists, db, pc, contigNames, updates, todo, ret, nOps, handles, arg, res>>

inputs == <<contigFile, bamFiles, kmerSize, force, option, sigOrder, ioFail, arg, res>>

MaxOps == 2

-----------------------------------------------------------------------------
(* Characters and strings                                                  *)

Ord(c) ==
    CASE c = "\n" -> 10 [] c = " " -> 32 [] c = "!" -> 33 [] c = "+" -> 43
      [] c = "," -> 44 [] c = "." -> 46 [] c = "/" -> 47 [] c = ">" -> 62
      [] c = "@" -> 64 [] c = "A" -> 65 [] c = "C" -> 67 [] c = "G" -> 71
      [] c = "N" -> 78 [] c = "T" -> 84 [] c = "Y" -> 89
      [] c = "a" -> 97 [] c = "b" -> 98 [] c = "c" -> 99 [] c = "d" -> 100
      [] c = "e" -> 101 [] c = "g" -> 103 [] c = "m" -> 109 [] c = "n" -> 110
      [] c = "s" -> 115 [] c = "t" -> 116 [] c = "x" -> 120 [] c = "y" -> 121
      [] c = "z" -> 122

\* str.upper() on one character
UpperChar(c) ==
    CASE c = "a" -> "A" [] c = "c" -> "C" [] c = "g" -> "G" [] c = "t" -> "T"
      [] c = "n" -> "N" [] c = "y" -> "Y" [] c = "e" -> "E" [] c = "s" -> "S"
      [] OTHER -> c

Upper(s) == [i \in 1..Len(s) |-> UpperChar(s[i])]

\* Python's s < t on strings
RECURSIVE LexLess(_, _)
LexLess(s, t) ==
    IF t = <<>> THEN FALSE
    ELSE IF s = <<>> THEN TRUE
    ELSE IF Ord(Head(s)) < Ord(Head(t)) THEN TRUE
    ELSE IF Ord(Head(s)) > Ord(Head(t)) THEN FALSE
    ELSE LexLess(Tail(s), Tail(t))

\* l[:-1]
Chop(l) == IF l = <<>> THEN <<>> ELSE SubSeq(l, 1, Len(l) - 1)

RECURSIVE Concat(_)
Concat(ss) == IF ss = <<>> THEN <<>> ELSE Head(ss) \o Concat(Tail(ss))

\* str.join(sep, names)
RECURSIVE Join(_, _)
Join(sep, names) ==
    IF names = <<>> THEN <<>>
    ELSE IF Len(names) = 1 THEN names[1]
    ELSE names[1] \o sep \o Join(sep, Tail(names))

Range(f) == {f[i] : i \in DOMAIN f}

\* sorted(S) for a set of strings
RECURSIVE Sorted(_)
Sorted(S) ==
    IF S = {} THEN <<>>
    ELSE LET m == CHOOSE x \in S : \A y \in S \ {x} : LexLess(x, y)
         IN  <<m>> \o Sorted(S \ {m})

RECURSIVE SumSeq(_)
SumSeq(s) == IF s = <<>> THEN 0 ELSE Head(s) + SumSeq(Tail(s))

-----------------------------------------------------------------------------
(* KmerSigEngine                                                           *)

base_words == <<"A", "C", "G", "T">>

\* string.maketrans('ACGT', 'TGCA') applied to one character
compl(c) ==
    CASE c = "A" -> "T" [] c = "C" -> "G" [] c = "G" -> "C" [] c = "T" -> "A"
      [] OTHER -> c

revComp(seq) == [i \in 1..Len(seq) |-> compl(seq[Len(seq) + 1 - i])]

\* a shiftLowLexi that returns the greater of the two forms
shiftHighLexi(seq) ==
    LET rseq == revComp(seq) IN IF LexLess(seq, rseq) THEN rseq ELSE seq

shiftLowLexi(seq) ==
    LET rseq == revComp(seq) IN IF LexLess(seq, rseq) THEN seq ELSE rseq

\* one round of the "build up the big list" loop
RECURSIVE Extend(_)
Extend(out_list) ==
    IF out_list = <<>> THEN <<>>
    ELSE [j \in 1..4 |-> Append(Head(out_list), base_words[j])] \o Extend(Tail(out_list))

RECURSIVE AllMers(_)
AllMers(kLen) ==
    IF kLen <= 1 THEN [j \in 1..4 |-> <<base_words[j]>>]
    ELSE Extend(AllMers(kLen - 1))

\* the "pare it down" loop
RECURSIVE Pare(_, _)
Pare(out_list, ret_list) ==
    IF out_list = <<>> THEN ret_list
    ELSE LET lmer == shiftLowLexi(Head(out_list))
         IN  Pare(Tail(out_list),
                  IF lmer \in Range(ret_list) THEN ret_list ELSE Append(ret_list, lmer))

makeKmerColNames(kLen) == Pare(AllMers(kLen), <<>>)

\* sig after the counting loop of getKSig: canonical k-mer -> window count
Windows(seq, kLen) ==
    IF Len(seq) - kLen + 1 < 1 THEN {} ELSE 1..(Len(seq) - kLen + 1)

sigCounts(seq, kLen) ==
    LET cols == makeKmerColNames(kLen)
    IN  [m \in Range(cols) |->
            Cardinality({i \in Windows(seq, kLen) :
                            shiftLowLexi(SubSeq(seq, i, i + kLen - 1)) = m})]

Reverse(s) == [i \in 1..Len(s) |-> s[Len(s) + 1 - i]]

\* The orders in which a Python 2 build iterates over the dict sig whose keys
\* were inserted in kmerCols order: insertion order (PyPy), the slot order of
\* CPython 2.7's string hash, and a hash-randomised order (python -R).
CPythonOrder(kLen) ==
    IF kLen = 2
    THEN << <<"A","A">>, <<"A","C">>, <<"A","G">>, <<"C","C">>, <<"C","A">>,
            <<"C","G">>, <<"G","C">>, <<"A","T">>, <<"G","A">>, <<"T","A">> >>
    ELSE makeKmerColNames(kLen)

DictOrders(kLen) ==
    {makeKmerColNames(kLen), CPythonOrder(kLen), Reverse(makeKmerColNames(kLen))}

\* getKSig(seq): the values of sig are taken in dict order and zipped with
\* kmerCols; every value is divided by ll = len(seq).  A zero ll raises
\* ZeroDivisionError.
getKSig(seq, kLen, order) ==
    LET cols == makeKmerColNames(kLen)
        sig  == sigCounts(seq, kLen)
        ll   == Len(seq)
    IN  IF ll = 0
        THEN [raised |-> TRUE, sig |-> <<>>]
        ELSE [raised |-> FALSE,
              sig |-> [m \in Range(cols) |->
                         LET j == CHOOSE j \in 1..Len(cols) : cols[j] = m
                         IN  [num |-> sig[order[j]], den |-> ll]]]

-----------------------------------------------------------------------------
(* ContigParser                                                            *)

IsWhite(c) == c \in {" ", "\n"}

\* s.split()[0]; <<>> stands for the IndexError of an empty split
RECURSIVE DropWhite(_)
DropWhite(s) ==
    IF s = <<>> THEN <<>> ELSE IF IsWhite(Head(s)) THEN DropWhite(Tail(s)) ELSE s

RECURSIVE TakeToken(_)
TakeToken(s) ==
    IF s = <<>> \/ IsWhite(Head(s)) THEN <<>> ELSE <<Head(s)>> \o TakeToken(Tail(s))

FirstToken(s) == TakeToken(DropWhite(s))

\* index of the first line at or after i whose first character is in chars,
\* Len(fp) + 1 when the file ends first
RECURSIVE FindLine(_, _, _)
FindLine(fp, i, chars) ==
    IF i > Len(fp) THEN i
    ELSE IF fp[i][1] \in chars THEN i
    ELSE FindLine(fp, i + 1, chars)

\* a quality loop that also ends at a line that looks like a header
QualReachedAtHeader(leng, l, seqLen) ==
    leng + Len(l) - 1 >= seqLen \/ l[1] \in {"@", ">"}

\* leng += len(l) - 1; if leng >= len(seq): the first character of l is not
\* looked at
QualReached(leng, l, seqLen) == leng + Len(l) - 1 >= seqLen

\* the quality loop: index of the line at which leng >= len(seq) is reached,
\* Len(fp) + 1 when the file ends first
RECURSIVE FindQualEnd(_, _, _, _)
FindQualEnd(fp, i, leng, seqLen) ==
    IF i > Len(fp) THEN i
    ELSE IF QualReached(leng, fp[i], seqLen) THEN i
    ELSE FindQualEnd(fp, i + 1, leng + Len(fp[i]) - 1, seqLen)

ChoppedLines(fp, from, to) == [j \in 1..(to - from + 1) |-> Chop(fp[from + j - 1])]

\* readfq(fp): the records it yields, and whether it raised (IndexError on a
\* header without a name).  i is the next line to read and last the buffered
\* line; None and '' are both <<>>.
RECURSIVE readfqFrom(_, _, _, _)
readfqFrom(fp, i, last, out) ==
    LET h     == IF last = <<>> THEN FindLine(fp, i, {">", "@"}) ELSE i - 1
        last1 == IF last # <<>> THEN last
                 ELSE IF h > Len(fp) THEN <<>> ELSE Chop(fp[h])
        i1    == IF last # <<>> THEN i ELSE h + 1
    IN  IF last1 = <<>> THEN [raised |-> FALSE, recs |-> out]
        ELSE IF FirstToken(Tail(last1)) = <<>> THEN [raised |-> TRUE, recs |-> out]
        ELSE
          LET name  == FirstToken(Tail(last1))
              s     == FindLine(fp, i1, {"@", "+", ">"})
              seq   == Concat(ChoppedLines(fp, i1, s - 1))
              last2 == IF s > Len(fp) THEN <<>> ELSE Chop(fp[s])
          IN  IF last2 = <<>> \/ last2[1] # "+"
              THEN LET out1 == Append(out, [name |-> name, seq |-> seq,
                                            qual |-> <<>>, kind |-> "fasta"])
                   IN  IF last2 = <<>> THEN [raised |-> FALSE, recs |-> out1]
                       ELSE readfqFrom(fp, s + 1, last2, out1)
              ELSE LET q == FindQualEnd(fp, s + 1, 0, Len(seq))
                   IN  IF q > Len(fp)
                       THEN [raised |-> FALSE,
                             recs |-> Append(out, [name |-> name, seq |-> seq,
                                                   qual |-> <<>>, kind |-> "fasta"])]
                       ELSE readfqFrom(fp, q + 1, <<>>,
                               Append(out, [name |-> name, seq |-> seq,
                                            qual |-> Concat(ChoppedLines(fp, s + 1, q)),
                                            kind |-> "fastq"]))

readfq(fp) == readfqFrom(fp, 1, <<>>, <<>>)

\* the index of the first record readfq yields under name cid
FirstOf(recs, cid) ==
    CHOOSE i \in 1..Len(recs) :
        recs[i].name = cid /\ \A j \in 1..(i - 1) : recs[j].name # cid

\* the index of the last record readfq yields under name cid
LastOf(recs, cid) ==
    CHOOSE i \in 1..Len(recs) :
        recs[i].name = cid /\ \A j \in (i + 1)..Len(recs) : recs[j].name # cid

\* ContigParser.parse(contigFile, kse, table): tmp_storage keeps, per cid, the
\* (signature, length) of the last record of that name; the rows of kms are
\* written in sorted cid order and con_names (cid -> length) is returned.
parse(fp, kLen, order) ==
    LET r     == readfq(fp)
        recs  == r.recs
        sigs  == [i \in 1..Len(recs) |-> getKSig(Upper(recs[i].seq), kLen, order)]
        cids  == {recs[i].name : i \in 1..Len(recs)}
        names == Sorted(cids)
    IN  IF r.raised \/ \E i \in 1..Len(recs) : sigs[i].raised
        THEN [raised |-> TRUE, con_names |-> <<>>, rows |-> <<>>]
        ELSE [raised |-> FALSE,
              con_names |-> [cid \in cids |-> Len(recs[LastOf(recs, cid)].seq)],
              rows |-> [i \in 1..Len(names) |-> sigs[LastOf(recs, names[i])].sig]]

-----------------------------------------------------------------------------
(* BamParser                                                               *)

RECURSIVE LastIndexOf(_, _)
LastIndexOf(s, c) ==
    IF s = <<>> THEN 0
    ELSE IF s[Len(s)] = c THEN Len(s)
    ELSE LastIndexOf(SubSeq(s, 1, Len(s) - 1), c)

\* os.path.basename
basename(p) == SubSeq(p, LastIndexOf(p, "/") + 1, Len(p))

\* os.path.splitext(b)[0]: cut at the last dot unless only dots precede it
splitextRoot(b) ==
    LET d == LastIndexOf(b, ".")
    IN  IF d = 0 \/ \A i \in 1..(d - 1) : b[i] = "." THEN b ELSE SubSeq(b, 1, d - 1)

getBamDescriptor(fullPath) == splitextRoot(basename(fullPath))

\* The BAM files on disk: whether pysam can open the path, and per reference
\* of the header its length and the number of alignments fetch() reports.
BamA  == <<"x", "/", "a", ".", "b", "a", "m">>
BamA2 == <<"y", "/", "a", ".", "b", "a", "m">>
BamB  == <<"b", ".", "b", "a", "m">>
BamCD == <<"c", ",", "d", ".", "b", "a", "m">>
BamZ  == <<"z", ".", "b", "a", "m">>
SamS  == <<"s", ".", "s", "a", "m">>

Ref(name, length, count) == [name |-> name, length |-> length, count |-> count]

BamOnDisk(path) ==
    CASE path = BamA  -> [openable |-> TRUE,
                          refs |-> <<Ref(<<"a">>, 4, 2), Ref(<<"z">>, 5, 3)>>]
      [] path = BamA2 -> [openable |-> TRUE,
                          refs |-> <<Ref(<<"b">>, 3, 3), Ref(<<"a">>, 4, 1)>>]
      [] path = BamB  -> [openable |-> TRUE, refs |-> <<Ref(<<"b">>, 3, 1)>>]
      [] path = BamCD -> [openable |-> TRUE, refs |-> <<Ref(<<"c">>, 2, 5)>>]
      [] path = BamZ  -> [openable |-> TRUE, refs |-> <<Ref(<<"a">>, 0, 0)>>]
      [] OTHER        -> [openable |-> FALSE, refs |-> <<>>]

Zero == [num |-> 0, den |-> 1]

\* parseBam over one file: storage[reference][bamCount] = num_reads / length
\* for every reference that is in contigNames
RECURSIVE parseBam(_, _, _, _)
parseBam(refs, bamCount, storage, names) ==
    IF refs = <<>> THEN storage
    ELSE LET r == Head(refs)
         IN  parseBam(Tail(refs), bamCount,
                 IF r.name \in DOMAIN names
                 THEN [storage EXCEPT ![r.name][bamCount] =
                                          [num |-> r.count, den |-> r.length]]
                 ELSE storage,
                 names)

\* does parseBam divide by a zero length
DividesByZero(refs, names) ==
    \E i \in 1..Len(refs) : refs[i].name \in DOMAIN names /\ refs[i].length = 0

RECURSIVE parseBams(_, _, _, _)
parseBams(files, bam_count, storage, names) ==
    IF files = <<>> THEN [raised |-> FALSE, storage |-> storage]
    ELSE LET bam == BamOnDisk(Head(files))
         IN  IF ~bam.openable \/ DividesByZero(bam.refs, names)
             THEN [raised |-> TRUE, storage |-> storage]
             ELSE parseBams(Tail(files), bam_count + 1,
                            parseBam(bam.refs, bam_count, storage, names), names)

\* the last position of colName in stoitColNames: the value a row keeps for a
\* column that is assigned more than once
LastCol(stoitColNames, colName) ==
    CHOOSE i \in 1..Len(stoitColNames) :
        stoitColNames[i] = colName
        /\ \A j \in (i + 1)..Len(stoitColNames) : stoitColNames[j] # colName

\* BamParser.parse: the rows of the coverage table, in sorted cid order
bamParse(files, stoitColNames, names) ==
    LET num_bams == Len(stoitColNames)
        zeros    == [cid \in DOMAIN names |-> [i \in 1..num_bams |-> Zero]]
        p        == parseBams(files, 1, zeros, names)
        cids     == Sorted(DOMAIN names)
    IN  IF p.raised THEN [raised |-> TRUE, rows |-> <<>>]
        ELSE [raised |-> FALSE,
              rows |-> [r \in 1..Len(cids) |->
                         [c \in Range(stoitColNames) |->
                             p.storage[cids[r]][LastCol(stoitColNames, c)]]]]

-----------------------------------------------------------------------------
(* The database file                                                       *)

\* widths of the string columns
CidWidth == 512
StoitColNamesWidth == 512
MerColNamesWidth == 4096

\* what a StringCol of the given width keeps of s
StringCol(width, s) == IF Len(s) > width THEN SubSeq(s, 1, width) ELSE s

Table(cols, rows) == [cols |-> cols, rows |-> rows]

EmptyFile == [t \in {} |-> Table({}, <<>>)]

\* createTable / removeNode / renameNode(overwrite=True) on the open file;
\* createTable raises when the node exists already
nodeExists(file, name) == name \in DOMAIN file

createTable(file, name, cols) ==
    [t \in DOMAIN file \cup {name} |-> IF t = name THEN Table(cols, <<>>) ELSE file[t]]

removeNode(file, name) == [t \in DOMAIN file \ {name} |-> file[t]]

renameNode(file, newname, name) ==
    [t \in (DOMAIN file \ {name}) \cup {newname} |->
        IF t = newname THEN file[name] ELSE file[t]]

setRows(file, name, rows) == [file EXCEPT ![name].rows = rows]

ContigCols == {"cid", "bid", "length", "core"}
BinCols == {"bid", "numMembers"}
MetaCols == {"stoitColNames", "numStoits", "merColNames", "merSize", "numMers",
             "numCons", "numBins", "clustered", "complete"}

\* initContigs walking contigNames in descending instead of ascending order
initContigsReversed(names) ==
    LET cids == Reverse(Sorted(DOMAIN names))
    IN  [i \in 1..Len(cids) |->
            [cid |-> StringCol(CidWidth, cids[i]), bid |-> 0,
             length |-> names[cids[i]], core |-> FALSE]]

\* initContigs(table, contigNames): one row per cid in sorted order; bid and
\* core take their column defaults
initContigs(names) ==
    LET cids == Sorted(DOMAIN names)
    IN  [i \in 1..Len(cids) |->
            [cid |-> StringCol(CidWidth, cids[i]), bid |-> 0,
             length |-> names[cids[i]], core |-> FALSE]]

\* initMeta with the values of numMers and numCons exchanged
initMetaSwapped(stoitColNames, numStoits, merColNames, merSize, numMers, numCons) ==
    << [stoitColNames |-> StringCol(StoitColNamesWidth, stoitColNames),
        numStoits |-> numStoits,
        merColNames |-> StringCol(MerColNamesWidth, merColNames),
        merSize |-> merSize, numMers |-> numCons, numCons |-> numMers,
        numBins |-> 0, clustered |-> FALSE, complete |-> FALSE] >>

\* initMeta: the single row of meta; numBins, clustered and complete take
\* their column defaults
initMeta(stoitColNames, numStoits, merColNames, merSize, numMers, numCons) ==
    << [stoitColNames |-> StringCol(StoitColNamesWidth, stoitColNames),
        numStoits |-> numStoits,
        merColNames |-> StringCol(MerColNamesWidth, merColNames),
        merSize |-> merSize, numMers |-> numMers, numCons |-> numCons,
        numBins |-> 0, clustered |-> FALSE, complete |-> FALSE] >>

\* a join that puts the separator after every name, the last one included
joinNamesTrailing(names) == Concat([i \in 1..Len(names) |-> names[i] \o <<",">>])

\* str.join(',', names)
joinNames(names) == Join(<<",">>, names)

\* stoitColNames as createDB builds it from bamFiles
StoitColNames(files) == [i \in 1..Len(files) |-> getBamDescriptor(files[i])]

-----------------------------------------------------------------------------
(* GMDataManager.createDB, one action per statement that touches the file  *)

\* an overwrite check that goes on unless the answer is "n"
MayOverwriteUnlessNo(exists, forced, answer) ==
    ~exists \/ forced \/ Upper(answer) # <<"N">>

\* the overwrite check: does createDB go on to open the file for writing
MayOverwrite(exists, forced, answer) ==
    ~exists \/ forced \/ Upper(answer) = <<"Y">>

Return(value) ==
    /\ pc' = "idle"
    /\ UNCHANGED nOps
    /\ ret' = value
    /\ contigNames' = <<>>
    /\ updates' = <<>>
    /\ todo' = <<>>

\* the handles left when control leaves the with block of openFile, which
\* closes the database file
Exited(leaves) == IF leaves THEN handles \ {"db"} ELSE handles

\* the BAM handle the frame of BamParser.parse still refers to when it raises:
\* the file that was opened and failed in parseBam; a file that could not be
\* opened leaves bam_file = None
BamHeld(files, names) ==
    IF \E i \in 1..Len(files) :
          /\ \A j \in 1..i : BamOnDisk(files[j]).openable
          /\ \A j \in 1..(i - 1) : ~DividesByZero(BamOnDisk(files[j]).refs, names)
          /\ DividesByZero(BamOnDisk(files[i]).refs, names)
    THEN {"bam"} ELSE {}

CheckOverwrite ==
    /\ pc = "createDB"
    /\ IF MayOverwrite(dbExists, force, option)
       THEN /\ pc' = "openFile"
            /\ UNCHANGED <<ret, contigNames, updates, todo, nOps>>
       ELSE Return("False")
    /\ UNCHANGED <<inputs, dbExists, handles, db>>

\* tables.openFile(dbFileName, mode = "w") and the two createGroup calls
OpenFileW ==
    /\ pc = "openFile"
    /\ dbExists' = TRUE
    /\ db' = EmptyFile
    /\ pc' = "kms"
    /\ handles' = handles \cup {"db"}
    /\ UNCHANGED <<inputs, contigNames, updates, todo, ret, nOps>>

\* a createDB that writes the meta table first, together with kms
CreateKmsMetaFirst ==
    /\ pc = "kms"
    /\ IF ioFail = "kms"
       THEN Return("raised") /\ UNCHANGED db
       ELSE /\ db' = setRows(createTable(createTable(db, "kms",
                                              Range(makeKmerColNames(kmerSize))),
                                          "meta", MetaCols),
                             "meta",
                             initMeta(joinNames(StoitColNames(bamFiles)),
                                      Len(StoitColNames(bamFiles)),
                                      joinNames(makeKmerColNames(kmerSize)),
                                      kmerSize, Len(makeKmerColNames(kmerSize)), 0))
            /\ pc' = "parse"
            /\ UNCHANGED <<ret, contigNames, updates, todo, nOps>>
    /\ handles' = Exited(ioFail = "kms")
    /\ UNCHANGED <<inputs, dbExists>>

CreateKms ==
    /\ pc = "kms"
    /\ IF ioFail = "kms"
       THEN Return("raised") /\ UNCHANGED db
       ELSE /\ db' = createTable(db, "kms", Range(makeKmerColNames(kmerSize)))
            /\ pc' = "parse"
            /\ UNCHANGED <<ret, contigNames, updates, todo, nOps>>
    /\ handles' = Exited(ioFail = "kms")
    /\ UNCHANGED <<inputs, dbExists>>

ParseContigs ==
    /\ pc = "parse"
    /\ LET r == parse(contigFile, kmerSize, sigOrder)
       IN  IF r.raised
           THEN Return("raised") /\ UNCHANGED db
           ELSE /\ db' = setRows(db, "kms", r.rows)
                /\ contigNames' = r.con_names
                /\ pc' = "contigs"
                /\ UNCHANGED <<ret, updates, todo, nOps>>
    /\ handles' = IF parse(contigFile, kmerSize, sigOrder).raised
                  THEN Exited(TRUE) \cup {"contigs"}
                  ELSE handles
    /\ UNCHANGED <<inputs, dbExists>>

CreateContigs ==
    /\ pc = "contigs"
    /\ IF ioFail = "contigs"
       THEN Return("raised") /\ UNCHANGED db
       ELSE /\ db' = setRows(createTable(db, "contigs", ContigCols), "contigs",
                             initContigs(contigNames))
            /\ pc' = "bins"
            /\ UNCHANGED <<ret, contigNames, updates, todo, nOps>>
    /\ handles' = Exited(ioFail = "contigs")
    /\ UNCHANGED <<inputs, dbExists>>

CreateBins ==
    /\ pc = "bins"
    /\ IF ioFail = "bins"
       THEN Return("raised") /\ UNCHANGED db
       ELSE /\ db' = createTable(db, "bins", BinCols)
            /\ pc' = "coverage"
            /\ UNCHANGED <<ret, contigNames, updates, todo, nOps>>
    /\ handles' = Exited(ioFail = "bins")
    /\ UNCHANGED <<inputs, dbExists>>

CreateCoverage ==
    /\ pc = "coverage"
    /\ IF ioFail = "coverage"
       THEN Return("raised") /\ UNCHANGED db
       ELSE /\ db' = createTable(db, "coverage", Range(StoitColNames(bamFiles)))
            /\ pc' = "bams"
            /\ UNCHANGED <<ret, contigNames, updates, todo, nOps>>
    /\ handles' = Exited(ioFail = "coverage")
    /\ UNCHANGED <<inputs, dbExists>>

ParseBams ==
    /\ pc = "bams"
    /\ LET r == bamParse(bamFiles, StoitColNames(bamFiles), contigNames)
       IN  IF r.raised
           THEN Return("raised") /\ UNCHANGED db
           ELSE /\ db' = setRows(db, "coverage", r.rows)
                /\ pc' = "meta"
                /\ UNCHANGED <<ret, contigNames, updates, todo, nOps>>
    /\ handles' = IF bamParse(bamFiles, StoitColNames(bamFiles), contigNames).raised
                  THEN Exited(TRUE) \cup BamHeld(bamFiles, contigNames)
                  ELSE handles
    /\ UNCHANGED <<inputs, dbExists>>

CreateMeta ==
    /\ pc = "meta"
    /\ IF ioFail = "meta"
       THEN Return("raised") /\ UNCHANGED db
       ELSE /\ db' = setRows(createTable(db, "meta", MetaCols), "meta",
                        initMeta(joinNames(StoitColNames(bamFiles)),
                                 Len(StoitColNames(bamFiles)),
                                 joinNames(makeKmerColNames(kmerSize)),
                                 kmerSize,
                                 Len(makeKmerColNames(kmerSize)),
                                 Cardinality(DOMAIN contigNames)))
            /\ Return("True")
    /\ handles' = Exited(TRUE)
    /\ UNCHANGED <<inputs, dbExists>>

createDB ==
    \/ CheckOverwrite
    \/ OpenFileW
    \/ CreateKms
    \/ ParseContigs
    \/ CreateContigs
    \/ CreateBins
    \/ CreateCoverage
    \/ ParseBams
    \/ CreateMeta

-----------------------------------------------------------------------------
(* Inputs                                                                  *)

NL == "\n"

FileEmpty  == <<>>
FileTwo    == << <<">", "b", NL>>, <<"A", "C", "G", "T", NL>>,
                 <<">", "a", NL>>, <<"A", "A", "T", NL>> >>
FileDup    == << <<">", "a", NL>>, <<"a", "c", NL>>, <<">", "b", NL>>, <<"G", "N", NL>>,
                 <<">", "a", NL>>, <<"T", "T", "A", NL>> >>
FileNoSeq  == << <<">", "a", NL>>, <<">", "b", NL>>, <<"A", "C", NL>> >>
FileFastq  == << <<"@", "a", NL>>, <<"A", "C", "G", NL>>, <<"+", NL>>, <<"!", "!", "!", NL>>,
                 <<">", "c", " ", "x", NL>>, <<"T", "T">> >>
FileNoName == << <<">", NL>>, <<"A", "C", NL>> >>

ContigFiles == {FileEmpty, FileTwo, FileDup, FileNoSeq, FileFastq, FileNoName}

BamLists == {<<>>, <<BamA>>, <<BamB, BamA>>, <<BamA, BamA2>>, <<BamCD>>,
             <<BamA, SamS>>, <<BamZ>>}

KmerSizes == {1, 2}

Options == {<<"y">>, <<"Y">>, <<"n">>, <<"y", "e", "s">>}

IoFails == {"none", "kms", "contigs", "bins", "coverage", "meta"}

\* a database left by an earlier run, with one contig put into bin 1
OldDB ==
    LET names == parse(FileTwo, 1, makeKmerColNames(1))
        f1 == setRows(createTable(EmptyFile, "kms", Range(makeKmerColNames(1))),
                      "kms", names.rows)
        f2 == setRows(createTable(f1, "contigs", ContigCols), "contigs",
                      [initContigs(names.con_names) EXCEPT ![1].bid = 1])
        f3 == setRows(createTable(f2, "bins", BinCols), "bins",
                      <<[bid |-> 1, numMembers |-> 1]>>)
        f4 == createTable(f3, "coverage", {})
        f5 == setRows(f4, "coverage", bamParse(<<>>, <<>>, names.con_names).rows)
    IN  setRows(createTable(f5, "meta", MetaCols), "meta",
                [initMeta(<<>>, 0, joinNames(makeKmerColNames(1)), 1, 2, 2)
                    EXCEPT ![1].numBins = 1])

\* the state in which createDB is called
InitWith(files, bams, ks, fails, exists) ==
    /\ contigFile \in files
    /\ bamFiles \in bams
    /\ kmerSize \in ks
    /\ sigOrder \in DictOrders(kmerSize)
    /\ ioFail \in fails
    /\ force \in IF TRUE \in exists THEN BOOLEAN ELSE {FALSE}
    /\ dbExists \in exists
    /\ option \in IF dbExists /\ ~force THEN Options ELSE {<<>>}
    /\ db = IF dbExists THEN OldDB ELSE EmptyFile
    /\ pc = "createDB"
    /\ contigNames = <<>>
    /\ updates = <<>>
    /\ todo = <<>>
    /\ ret = "none"
    /\ nOps = 0
    /\ handles = {}
    /\ arg = <<>>
    /\ res = <<>>

InitCreate == InitWith(ContigFiles, BamLists, KmerSizes, IoFails, BOOLEAN)

SpecCreate == InitCreate /\ [][createDB]_vars

-----------------------------------------------------------------------------
(* GMDataManager operations on an existing database                        *)

MaxBid == 2

\* the member counts and the core flags the callers pass
Members == {1, 2}

\* the keys of a dict with integer keys, in iteration order (ascending for
\* the small integers used as bin ids and row numbers)
RECURSIVE keys(_)
keys(d) ==
    IF DOMAIN d = {} THEN <<>>
    ELSE LET m == CHOOSE x \in DOMAIN d : \A y \in DOMAIN d : x <= y
         IN  <<m>> \o keys([x \in DOMAIN d \ {m} |-> d[x]])

\* dicts with at most n keys from K and values from V
Dicts(K, V, n) ==
    UNION {[S -> V] : S \in {T \in SUBSET K : Cardinality(T) <= n}}

Rows(name) == db[name].rows

numRows == Len(Rows("contigs"))

\* the row numbers an update may name: those of the table and the one past it
UpdateRows == IF "contigs" \in DOMAIN db THEN 0..numRows ELSE {}

\* an operation can start on a database that createDB has completed
CanStart == pc = "idle" /\ dbExists /\ "meta" \in DOMAIN db /\ nOps < MaxOps

Begin(position, u, t, names) ==
    /\ pc' = position
    /\ updates' = u
    /\ todo' = t
    /\ contigNames' = names
    /\ nOps' = nOps + 1
    /\ UNCHANGED ret

Goto(position) ==
    /\ pc' = position
    /\ UNCHANGED <<updates, todo, contigNames, ret, nOps>>

\* ---- setBinStats(dbFileName, updates), updates = {bid : numMembers}

\* a setBinStats that does not remove the tmp_bins of a failed attempt
SetBinStatsNoRemove(u) ==
    /\ CanStart
    /\ Begin("setBinStats_create", u, <<>>, <<>>)
    /\ UNCHANGED <<inputs, dbExists, handles, db>>

SetBinStats(u) ==
    /\ CanStart
    /\ db' = removeNode(db, "tmp_bins")
    /\ Begin("setBinStats_create", u, <<>>, <<>>)
    /\ UNCHANGED <<inputs, dbExists, handles>>

\* a setBinStats that empties the live bins table when it starts writing
SetBinStatsCreateTruncating ==
    /\ pc = "setBinStats_create"
    /\ IF nodeExists(db, "tmp_bins")
       THEN Return("raised") /\ UNCHANGED db
       ELSE /\ db' = setRows(createTable(db, "tmp_bins", BinCols), "bins", <<>>)
            /\ pc' = "setBinStats_append"
            /\ todo' = keys(updates)
            /\ UNCHANGED <<updates, contigNames, ret, nOps>>
    /\ UNCHANGED <<inputs, dbExists, handles>>

SetBinStatsCreate ==
    /\ pc = "setBinStats_create"
    /\ IF nodeExists(db, "tmp_bins")
       THEN Return("raised") /\ UNCHANGED db
       ELSE /\ db' = createTable(db, "tmp_bins", BinCols)
            /\ pc' = "setBinStats_append"
            /\ todo' = keys(updates)
            /\ UNCHANGED <<updates, contigNames, ret, nOps>>
    /\ UNCHANGED <<inputs, dbExists, handles>>

SetBinStatsAppend ==
    /\ pc = "setBinStats_append"
    /\ IF todo # <<>>
       THEN /\ db' = setRows(db, "tmp_bins",
                        Append(Rows("tmp_bins"),
                               [bid |-> Head(todo), numMembers |-> updates[Head(todo)]]))
            /\ todo' = Tail(todo)
            /\ UNCHANGED <<pc, updates, contigNames, ret, nOps>>
       ELSE Goto("setBinStats_rename") /\ UNCHANGED db
    /\ UNCHANGED <<inputs, dbExists, handles>>

SetBinStatsRename ==
    /\ pc = "setBinStats_rename"
    /\ db' = renameNode(db, "bins", "tmp_bins")
    /\ Return("None")
    /\ UNCHANGED <<inputs, dbExists, handles>>

\* getBinStats(dbFileName): {bid : numMembers} of the bins table
getBinStats(file) ==
    LET rows == file["bins"].rows
    IN  [b \in {rows[i].bid : i \in 1..Len(rows)} |->
            rows[CHOOSE i \in 1..Len(rows) :
                    rows[i].bid = b /\ \A j \in (i + 1)..Len(rows) : rows[j].bid # b].numMembers]

\* ---- nukeBins(dbFileName)

\* dict(zip(cids, lengths)) over readWhere("cid != ''")
readContigNames(rows) ==
    [c \in {rows[i].cid : i \in {j \in 1..Len(rows) : rows[j].cid # <<>>}} |->
        rows[CHOOSE i \in 1..Len(rows) :
                rows[i].cid = c /\ \A j \in (i + 1)..Len(rows) : rows[j].cid # c].length]

NukeBins ==
    /\ CanStart
    /\ db' = removeNode(db, "tmp_bins")
    /\ Begin("nukeBins_create_bins", <<>>, <<>>, readContigNames(Rows("contigs")))
    /\ UNCHANGED <<inputs, dbExists, handles>>

NukeBinsCreateBins ==
    /\ pc = "nukeBins_create_bins"
    /\ IF nodeExists(db, "tmp_bins")
       THEN Return("raised") /\ UNCHANGED db
       ELSE db' = createTable(db, "tmp_bins", BinCols) /\ Goto("nukeBins_rename_bins")
    /\ UNCHANGED <<inputs, dbExists, handles>>

\* a nukeBins that drops tmp_bins instead of renaming it over bins
NukeBinsKeepBins ==
    /\ pc = "nukeBins_rename_bins"
    /\ db' = removeNode(db, "tmp_bins")
    /\ Goto("nukeBins_remove_contigs")
    /\ UNCHANGED <<inputs, dbExists, handles>>

NukeBinsRenameBins ==
    /\ pc = "nukeBins_rename_bins"
    /\ db' = renameNode(db, "bins", "tmp_bins")
    /\ Goto("nukeBins_remove_contigs")
    /\ UNCHANGED <<inputs, dbExists, handles>>

NukeBinsRemoveContigs ==
    /\ pc = "nukeBins_remove_contigs"
    /\ db' = removeNode(db, "tmp_contigs")
    /\ Goto("nukeBins_create_contigs")
    /\ UNCHANGED <<inputs, dbExists, handles>>

NukeBinsCreateContigs ==
    /\ pc = "nukeBins_create_contigs"
    /\ IF nodeExists(db, "tmp_contigs")
       THEN Return("raised") /\ UNCHANGED db
       ELSE /\ db' = createTable(db, "tmp_contigs", ContigCols)
            /\ pc' = "nukeBins_init"
            /\ todo' = initContigs(contigNames)
            /\ UNCHANGED <<updates, contigNames, ret, nOps>>
    /\ UNCHANGED <<inputs, dbExists, handles>>

\* the loop of initContigs on tmp_contigs, one row at a time
NukeBinsInitContigs ==
    /\ pc = "nukeBins_init"
    /\ IF todo # <<>>
       THEN /\ db' = setRows(db, "tmp_contigs", Append(Rows("tmp_contigs"), Head(todo)))
            /\ todo' = Tail(todo)
            /\ UNCHANGED <<pc, updates, contigNames, ret, nOps>>
       ELSE Goto("nukeBins_rename_contigs") /\ UNCHANGED db
    /\ UNCHANGED <<inputs, dbExists, handles>>

NukeBinsRenameContigs ==
    /\ pc = "nukeBins_rename_contigs"
    /\ db' = renameNode(db, "contigs", "tmp_contigs")
    /\ Return("None")
    /\ UNCHANGED <<inputs, dbExists, handles>>

\* ---- setBins / setCores(dbFileName, updates), updates = {tableRow : value}

\* a setBins whose loop leaves out the first key of updates
SetBinsSkippingFirst(u) ==
    /\ CanStart
    /\ Begin("setBins_modify", u, IF keys(u) = <<>> THEN <<>> ELSE Tail(keys(u)), <<>>)
    /\ UNCHANGED <<inputs, dbExists, handles, db>>

SetBins(u) ==
    /\ CanStart
    /\ Begin("setBins_modify", u, keys(u), <<>>)
    /\ UNCHANGED <<inputs, dbExists, handles, db>>

\* a loop turn whose new row does not take over the cid of the old row
ModifyRowDroppingCid(position, field) ==
    /\ pc = position
    /\ IF todo = <<>> THEN Return("None") /\ UNCHANGED db
       ELSE IF Head(todo) >= numRows THEN Return("raised") /\ UNCHANGED db
       ELSE /\ db' = [db EXCEPT !["contigs"].rows[Head(todo) + 1] =
                                    [@ EXCEPT ![field] = updates[Head(todo)], !.cid = <<>>]]
            /\ todo' = Tail(todo)
            /\ UNCHANGED <<pc, updates, contigNames, ret, nOps>>
    /\ UNCHANGED <<inputs, dbExists, handles>>

\* one turn of the loop: table[row_num] raises IndexError past the last row
ModifyRow(position, field) ==
    /\ pc = position
    /\ IF todo = <<>> THEN Return("None") /\ UNCHANGED db
       ELSE IF Head(todo) >= numRows THEN Return("raised") /\ UNCHANGED db
       ELSE /\ db' = [db EXCEPT !["contigs"].rows[Head(todo) + 1][field] =
                                    updates[Head(todo)]]
            /\ todo' = Tail(todo)
            /\ UNCHANGED <<pc, updates, contigNames, ret, nOps>>
    /\ UNCHANGED <<inputs, dbExists, handles>>

SetBinsModify == ModifyRow("setBins_modify", "bid")

SetCores(u) ==
    /\ CanStart
    /\ Begin("setCores_modify", u, keys(u), <<>>)
    /\ UNCHANGED <<inputs, dbExists, handles, db>>

SetCoresModify == ModifyRow("setCores_modify", "core")

\* ---- the meta setters: every row of meta (there is one) gets the field

\* a setter that writes the row anew, complete back at its default
SetMetaFieldResetting(field, value) ==
    /\ CanStart
    /\ db' = [db EXCEPT !["meta"].rows =
                  [i \in 1..Len(Rows("meta")) |->
                      [Rows("meta")[i] EXCEPT ![field] = value, !.complete = FALSE]]]
    /\ pc' = "idle"
    /\ ret' = "None"
    /\ nOps' = nOps + 1
    /\ UNCHANGED <<contigNames, updates, todo>>
    /\ UNCHANGED <<inputs, dbExists, handles>>

SetMetaField(field, value) ==
    /\ CanStart
    /\ db' = [db EXCEPT !["meta"].rows =
                  [i \in 1..Len(Rows("meta")) |-> [Rows("meta")[i] EXCEPT ![field] = value]]]
    /\ pc' = "idle"
    /\ ret' = "None"
    /\ nOps' = nOps + 1
    /\ UNCHANGED <<contigNames, updates, todo>>
    /\ UNCHANGED <<inputs, dbExists, handles>>

SetNumBins(numBins) == SetMetaField("numBins", numBins)

SetClustered(state) == SetMetaField("clustered", state)

SetComplete(state) == SetMetaField("complete", state)

\* ---- the process is killed in the middle of an operation on the database

OpPositions ==
    {"setBinStats_create", "setBinStats_append", "setBinStats_rename",
     "nukeBins_create_bins", "nukeBins_rename_bins", "nukeBins_remove_contigs",
     "nukeBins_create_contigs", "nukeBins_init", "nukeBins_rename_contigs",
     "setBins_modify", "setCores_modify"}

\* ret keeps the position at which the process died
Crash ==
    /\ pc \in OpPositions
    /\ Return(pc)
    /\ UNCHANGED <<inputs, dbExists, handles, db>>

Operations ==
    \/ \E u \in Dicts(1..MaxBid, Members, 2) : SetBinStats(u)
    \/ SetBinStatsCreate
    \/ SetBinStatsAppend
    \/ SetBinStatsRename
    \/ NukeBins
    \/ NukeBinsCreateBins
    \/ NukeBinsRenameBins
    \/ NukeBinsRemoveContigs
    \/ NukeBinsCreateContigs
    \/ NukeBinsInitContigs
    \/ NukeBinsRenameContigs
    \/ \E u \in Dicts(UpdateRows, 0..MaxBid, 2) : SetBins(u)
    \/ SetBinsModify
    \/ \E u \in Dicts(UpdateRows, BOOLEAN, 1) : SetCores(u)
    \/ SetCoresModify
    \/ \E n \in 0..MaxBid : SetNumBins(n)
    \/ \E state \in BOOLEAN : SetClustered(state)
    \/ \E state \in BOOLEAN : SetComplete(state)
    \/ Crash

Init == InitWith({FileTwo}, {<<BamA>>}, {1}, {"none"}, {FALSE})

Next == createDB \/ Operations

Spec == Init /\ [][Next]_vars

-----------------------------------------------------------------------------
(* KmerSigEngine.getKSig applied on its own                                *)

MaxSeqLen == 3

SeqChars == {"A", "C", "G", "T", "N"}

Seqs == UNION {[1..n -> SeqChars] : n \in 0..MaxSeqLen}

InitKSig ==
    /\ arg \in Seqs
    /\ kmerSize \in KmerSizes
    /\ sigOrder \in DictOrders(kmerSize)
    /\ res = [raised |-> FALSE, sig |-> <<>>]
    /\ pc = "getKSig"
    /\ contigFile = <<>>
    /\ bamFiles = <<>>
    /\ force = FALSE
    /\ option = <<>>
    /\ ioFail = "none"
    /\ dbExists = FALSE
    /\ db = EmptyFile
    /\ contigNames = <<>>
    /\ updates = <<>>
    /\ todo = <<>>
    /\ ret = "none"
    /\ nOps = 0
    /\ handles = {}

ApplyGetKSig ==
    /\ pc = "getKSig"
    /\ res' = getKSig(arg, kmerSize, sigOrder)
    /\ pc' = "idle"
    /\ UNCHANGED <<contigFile, bamFiles, kmerSize, force, option, sigOrder, ioFail, arg,
                   dbExists, db, contigNames, updates, todo, ret, nOps, handles>>

SpecKSig == InitKSig /\ [][ApplyGetKSig]_vars

-----------------------------------------------------------------------------
(* The readers of GMDataManager                                            *)

\* the conditions the callers pass: '' and expressions over a contigs row
Conditions ==
    {"", "cid != ''", "bid == 0", "bid != 0", "length >= 4", "(bid == 1) | (bid == 2)",
     "length > 9"}

\* does a row of contigs satisfy a (non-empty) condition
Satisfies(row, condition) ==
    CASE condition = "cid != ''" -> row.cid # <<>>
      [] condition = "bid == 0" -> row.bid = 0
      [] condition = "bid != 0" -> row.bid # 0
      [] condition = "length >= 4" -> row.length >= 4
      [] condition = "(bid == 1) | (bid == 2)" -> row.bid = 1 \/ row.bid = 2
      [] condition = "length > 9" -> row.length > 9

\* if('' == condition): condition = "cid != ''"
DefaultCondition(condition) == IF condition = "" THEN "cid != ''" ELSE condition

\* a where that walks the table from its last row to its first
WhereReversed(file, condition) ==
    LET rows == file["contigs"].rows
    IN  SelectSeq([i \in 1..Len(rows) |-> Len(rows) - i],
                  LAMBDA x : Satisfies(rows[x + 1], condition))

\* [x.nrow for x in contigs.where(condition)]: the table is walked from its
\* first row to its last
Where(file, condition) ==
    LET rows == file["contigs"].rows
    IN  SelectSeq([i \in 1..Len(rows) |-> i - 1],
                  LAMBDA x : Satisfies(rows[x + 1], condition))

\* getConditionalIndicies(dbFileName, condition)
getConditionalIndicies(file, condition) == Where(file, DefaultCondition(condition))

\* the body shared by the bulk readers: the rows of a table at the given
\* indices when np.size(indicies) != 0, else at the rows of contigs that meet
\* the condition; an index past the last row raises IndexError
ReadRows(file, table, condition, indicies) ==
    LET sel == IF Len(indicies) # 0 THEN indicies
               ELSE Where(file, DefaultCondition(condition))
    IN  IF \E j \in 1..Len(sel) : sel[j] >= Len(file[table].rows)
        THEN [raised |-> TRUE, value |-> <<>>]
        ELSE [raised |-> FALSE,
              value |-> [j \in 1..Len(sel) |-> file[table].rows[sel[j] + 1]]]

\* a reader of one column of contigs
ReadColumn(file, column, condition, indicies) ==
    LET r == ReadRows(file, "contigs", condition, indicies)
    IN  [raised |-> r.raised,
         value |-> [j \in 1..Len(r.value) |-> r.value[j][column]]]

getCoverageProfiles(file, condition, indicies) ==
    ReadRows(file, "coverage", condition, indicies)

getKmerSigs(file, condition, indicies) == ReadRows(file, "kms", condition, indicies)

getBins(file, condition, indicies) == ReadColumn(file, "bid", condition, indicies)

getCores(file, condition, indicies) == ReadColumn(file, "core", condition, indicies)

getContigNames(file, condition, indicies) == ReadColumn(file, "cid", condition, indicies)

getContigLengths(file, condition, indicies) ==
    ReadColumn(file, "length", condition, indicies)

\* the longest index vector passed to a reader
MaxIndices == 2

\* the database createDB builds from a contig file and a list of BAM files
BuiltDB(file, bams, kLen) ==
    LET p  == parse(file, kLen, makeKmerColNames(kLen))
        f1 == setRows(createTable(EmptyFile, "kms", Range(makeKmerColNames(kLen))),
                      "kms", p.rows)
        f2 == setRows(createTable(f1, "contigs", ContigCols), "contigs",
                      initContigs(p.con_names))
        f3 == createTable(f2, "bins", BinCols)
        f4 == setRows(createTable(f3, "coverage", Range(StoitColNames(bams))), "coverage",
                      bamParse(bams, StoitColNames(bams), p.con_names).rows)
    IN  setRows(createTable(f4, "meta", MetaCols), "meta",
                initMeta(joinNames(StoitColNames(bams)), Len(bams),
                         joinNames(makeKmerColNames(kLen)), kLen,
                         Len(makeKmerColNames(kLen)), Cardinality(DOMAIN p.con_names)))

\* databases to read: built from no contig or from two, the bins set by setBins
ReadDBs ==
    {BuiltDB(FileEmpty, <<BamA>>, 1)} \cup
    {[BuiltDB(FileTwo, <<BamA>>, 1) EXCEPT !["contigs"].rows[1].bid = b1,
                                           !["contigs"].rows[2].bid = b2,
                                           !["contigs"].rows[2].core = (b2 # 0)] :
        b1 \in 0..MaxBid, b2 \in 0..MaxBid}

\* index vectors over the rows of a two-row table and the row past its end
IndexVectors == UNION {[1..n -> 0..2] : n \in 0..MaxIndices}

InitRead ==
    /\ db \in ReadDBs
    /\ arg \in [condition : Conditions, indicies : IndexVectors]
    /\ res = [raised |-> FALSE, value |-> <<>>]
    /\ pc = "read"
    /\ ret = "none"
    /\ dbExists = TRUE
    /\ contigFile = <<>>
    /\ bamFiles = <<>>
    /\ kmerSize = 1
    /\ sigOrder = makeKmerColNames(1)
    /\ force = FALSE
    /\ option = <<>>
    /\ ioFail = "none"
    /\ contigNames = <<>>
    /\ updates = <<>>
    /\ todo = <<>>
    /\ nOps = 0
    /\ handles = {}

\* a reader is called and returns
Read(reader, result) ==
    /\ pc = "read"
    /\ pc' = "idle"
    /\ ret' = reader
    /\ res' = result
    /\ UNCHANGED <<contigFile, bamFiles, kmerSize, force, option, sigOrder, ioFail, arg,
                   dbExists, db, contigNames, updates, todo, nOps, handles>>

GetConditionalIndicies ==
    Read("getConditionalIndicies",
         [raised |-> FALSE, value |-> getConditionalIndicies(db, arg.condition)])

GetCoverageProfiles ==
    Read("getCoverageProfiles", getCoverageProfiles(db, arg.condition, arg.indicies))

GetKmerSigs == Read("getKmerSigs", getKmerSigs(db, arg.condition, arg.indicies))

GetBins == Read("getBins", getBins(db, arg.condition, arg.indicies))

GetCores == Read("getCores", getCores(db, arg.condition, arg.indicies))

GetContigNames == Read("getContigNames", getContigNames(db, arg.condition, arg.indicies))

GetContigLengths ==
    Read("getContigLengths", getContigLengths(db, arg.condition, arg.indicies))

Readers ==
    \/ GetConditionalIndicies
    \/ GetCoverageProfiles
    \/ GetKmerSigs
    \/ GetBins
    \/ GetCores
    \/ GetContigNames
    \/ GetContigLengths

SpecRead == InitRead /\ [][Readers]_vars

-----------------------------------------------------------------------------
(* ContigParser.readfq applied on its own                                  *)

\* the most lines a parsed file has
MaxLines == 6

\* the lines of the files: headers, a sequence line with an ambiguous base,
\* the separator of a fastq record, and a last line without line terminator
FullLines == { <<">", "a", NL>>, <<"@", "b", NL>>, <<"A", "N", NL>>, <<"+", NL>> }

OpenLines == { <<"T">> }

ParsedFiles ==
    LET full == UNION {[1..n -> FullLines] : n \in 0..MaxLines}
    IN  full \cup {f \o <<l>> : f \in {g \in full : Len(g) < MaxLines}, l \in OpenLines}

InitParse ==
    /\ contigFile \in ParsedFiles
    /\ res = [raised |-> FALSE, recs |-> <<>>]
    /\ pc = "readfq"
    /\ arg = <<>>
    /\ bamFiles = <<>>
    /\ kmerSize = 1
    /\ sigOrder = makeKmerColNames(1)
    /\ force = FALSE
    /\ option = <<>>
    /\ ioFail = "none"
    /\ dbExists = FALSE
    /\ db = EmptyFile
    /\ contigNames = <<>>
    /\ updates = <<>>
    /\ todo = <<>>
    /\ ret = "none"
    /\ nOps = 0
    /\ handles = {}

\* for cid, seq, qual in self.readfq(contigFile): the generator is run to its end
ApplyReadfq ==
    /\ pc = "readfq"
    /\ res' = readfq(contigFile)
    /\ pc' = "idle"
    /\ UNCHANGED <<contigFile, bamFiles, kmerSize, force, option, sigOrder, ioFail, arg,
                   dbExists, db, contigNames, updates, todo, ret, nOps, handles>>

SpecParse == InitParse /\ [][ApplyReadfq]_vars

-----------------------------------------------------------------------------
(* ProfileManager.updateValidBinIds on a database with bins                 *)

\* the dict updateValidBinIds builds from the bins it read and its updates:
\* a bid it read is deleted when its update is 0 and set otherwise, a bid it
\* did not read is set whatever its update
UpdatedBinStats(existing_bin_stats, u) ==
    LET deleted == {bid \in DOMAIN u : bid \in DOMAIN existing_bin_stats /\ u[bid] = 0}
    IN  [bid \in (DOMAIN existing_bin_stats \cup DOMAIN u) \ deleted |->
            IF bid \in DOMAIN u THEN u[bid] ELSE existing_bin_stats[bid]]

\* setBinStats run from its first statement to its last
setBinStats(file, u) ==
    LET tmp  == createTable(removeNode(file, "tmp_bins"), "tmp_bins", BinCols)
        rows == [i \in 1..Len(keys(u)) |->
                    [bid |-> keys(u)[i], numMembers |-> u[keys(u)[i]]]]
    IN  renameNode(setRows(tmp, "tmp_bins", rows), "bins", "tmp_bins")

\* databases with a bins table written by setBinStats and a numBins written
\* by setNumBins
BinnedDBs ==
    {[setBinStats(BuiltDB(FileTwo, <<BamA>>, 1), b) EXCEPT !["meta"].rows[1].numBins = n] :
        b \in Dicts(1..MaxBid, Members, MaxBid), n \in 0..MaxBid}

InitPM ==
    /\ db \in BinnedDBs
    /\ arg \in Dicts(1..MaxBid, {0} \cup Members, 2)
    /\ res = <<>>
    /\ pc = "updateValidBinIds"
    /\ ret = "none"
    /\ dbExists = TRUE
    /\ contigFile = <<>>
    /\ bamFiles = <<>>
    /\ kmerSize = 1
    /\ sigOrder = makeKmerColNames(1)
    /\ force = FALSE
    /\ option = <<>>
    /\ ioFail = "none"
    /\ contigNames = <<>>
    /\ updates = <<>>
    /\ todo = <<>>
    /\ nOps = 0
    /\ handles = {}

\* existing_bin_stats = getBinStats(...) and the loop over updates.keys();
\* res keeps what getBinStats returned, updates the dict handed on
UpdateValidBinIds ==
    /\ pc = "updateValidBinIds"
    /\ res' = getBinStats(db)
    /\ updates' = UpdatedBinStats(getBinStats(db), arg)
    /\ pc' = "saveValidBinIds"
    /\ UNCHANGED <<contigFile, bamFiles, kmerSize, force, option, sigOrder, ioFail, arg,
                   dbExists, db, contigNames, todo, ret, nOps, handles>>

\* saveValidBinIds: self.dataManager.setBinStats(self.dbFileName, updates)
SaveValidBinIds ==
    /\ pc = "saveValidBinIds"
    /\ db' = setBinStats(db, updates)
    /\ pc' = "saveValidBinIds_setNumBins"
    /\ UNCHANGED <<inputs, dbExists, contigNames, updates, todo, ret, nOps, handles>>

\* saveValidBinIds: self.setNumBins(len(updates.keys())), and the return
SaveNumBins ==
    /\ pc = "saveValidBinIds_setNumBins"
    /\ db' = [db EXCEPT !["meta"].rows =
                  [i \in 1..Len(Rows("meta")) |->
                      [Rows("meta")[i] EXCEPT !.numBins = Cardinality(DOMAIN updates)]]]
    /\ pc' = "idle"
    /\ ret' = "updateValidBinIds"
    /\ UNCHANGED <<inputs, dbExists, contigNames, updates, todo, nOps, handles>>

SpecPM == InitPM /\ [][UpdateValidBinIds \/ SaveValidBinIds \/ SaveNumBins]_vars

-----------------------------------------------------------------------------
(* Properties                                                              *)

Meta == Rows("meta")[1]

\* createDB has returned True
Created == pc = "idle" /\ ret = "True"

CreatePositions ==
    {"createDB", "openFile", "kms", "parse", "contigs", "bins", "coverage", "bams", "meta"}

\* what the contig file holds: its records and the sorted distinct names
FileRecs == readfq(contigFile).recs

FileNames == Sorted({FileRecs[i].name : i \in 1..Len(FileRecs)})

\* the coverage of contig cid in one BAM file, from the file itself
CoverageIn(cid, path) ==
    LET refs == BamOnDisk(path).refs
    IN  IF \E i \in 1..Len(refs) : refs[i].name = cid
        THEN LET i == CHOOSE i \in 1..Len(refs) : refs[i].name = cid
             IN  [num |-> refs[i].count, den |-> refs[i].length]
        ELSE Zero

\* C1: in a database produced by createDB, row i of contigs, of kms and of
\* coverage all belong to the i-th name of the contig file's distinct names
\* in strictly ascending order: contigs holds that name, kms the signature of
\* its (last) record and coverage its coverage in the BAM of each column.
C1_RowAlignment ==
    Created =>
        /\ Len(Rows("contigs")) = Len(FileNames)
        /\ Len(Rows("kms")) = Len(FileNames)
        /\ Len(Rows("coverage")) = Len(FileNames)
        /\ \A i \in 1..Len(FileNames) :
              /\ Rows("contigs")[i].cid = FileNames[i]
              /\ Rows("kms")[i] =
                    getKSig(Upper(FileRecs[LastOf(FileRecs, FileNames[i])].seq),
                            kmerSize, sigOrder).sig
              /\ \A c \in db["coverage"].cols :
                    Rows("coverage")[i][c] =
                        CoverageIn(FileNames[i],
                                   bamFiles[LastCol(StoitColNames(bamFiles), c)])
        /\ \A i \in 1..(Len(Rows("contigs")) - 1) :
              LexLess(Rows("contigs")[i].cid, Rows("contigs")[i + 1].cid)

\* a database of two contigs whose file order is not the sorted order, with
\* a BAM that covers one of them
C1_Witness ==
    /\ Created
    /\ Len(Rows("contigs")) = 2
    /\ FileRecs[1].name # FileNames[1]
    /\ \E c \in db["coverage"].cols : Rows("coverage")[1][c].num > 0

\* C2: once createDB has completed, no step of any operation changes a row of
\* kms or of coverage, the number of rows of contigs, or the cid or length
\* at any row of contigs.
C2_Frame ==
    [][("meta" \in DOMAIN db /\ pc \notin CreatePositions) =>
          /\ db'["kms"] = db["kms"]
          /\ db'["coverage"] = db["coverage"]
          /\ Len(db'["contigs"].rows) = Len(db["contigs"].rows)
          /\ \A i \in 1..Len(db["contigs"].rows) :
                /\ db'["contigs"].rows[i].cid = db["contigs"].rows[i].cid
                /\ db'["contigs"].rows[i].length = db["contigs"].rows[i].length]_vars

\* operations have run: a contig is binned and marked core, the bins table is filled
C2_Witness ==
    /\ pc = "idle"
    /\ nOps >= 2
    /\ "meta" \in DOMAIN db
    /\ \E i \in 1..numRows : Rows("contigs")[i].bid # 0
    /\ Rows("kms") # <<>>

\* C3: in a database produced by createDB, meta.numCons is the number of rows
\* of contigs, of kms and of coverage, meta.numMers the number of columns of
\* kms, meta.merSize is k and meta.numStoits the number of BAM files given.
C3_MetaCounts ==
    Created =>
        /\ Meta.numCons = Len(Rows("contigs"))
        /\ Meta.numCons = Len(Rows("kms"))
        /\ Meta.numCons = Len(Rows("coverage"))
        /\ Meta.numMers = Cardinality(db["kms"].cols)
        /\ Meta.merSize = kmerSize
        /\ Meta.numStoits = Len(bamFiles)

\* a database built from an empty contig file and two BAM files
C3_Witness ==
    /\ Created
    /\ contigFile = <<>>
    /\ Rows("contigs") = <<>>
    /\ Len(bamFiles) = 2

Commas(s) == Cardinality({i \in 1..Len(s) : s[i] = ","})

\* C4 (as claimed): for any list of BAM files, the empty list included,
\* meta.numStoits is the number of commas in meta.stoitColNames plus one.
C4_Original ==
    Created => Meta.numStoits = Commas(Meta.stoitColNames) + 1

\* C4 (amended): for a non-empty list of BAM files whose names without
\* extension hold no comma and, joined, fit the stoitColNames column,
\* meta.numStoits is the number of commas in meta.stoitColNames plus one; for
\* the empty list meta.numStoits is 0 and meta.stoitColNames is empty.
C4_CommasPlusOne ==
    Created =>
        /\ ( /\ bamFiles # <<>>
             /\ \A i \in 1..Len(bamFiles) : Commas(getBamDescriptor(bamFiles[i])) = 0
             /\ Len(joinNames(StoitColNames(bamFiles))) <= StoitColNamesWidth )
           => Meta.numStoits = Commas(Meta.stoitColNames) + 1
        /\ bamFiles = <<>> => (Meta.numStoits = 0 /\ Meta.stoitColNames = <<>>)

\* a database built from two BAM files
C4_Witness ==
    /\ Created
    /\ Len(bamFiles) = 2
    /\ Meta.stoitColNames = <<"b", ",", "a">>

\* the windows of seq that hold no ambiguous base
CleanWindows(seq, kLen) ==
    {i \in Windows(seq, kLen) :
        \A j \in i..(i + kLen - 1) : seq[j] \in {"A", "C", "G", "T"}}

SigSum(sig) ==
    LET cols == makeKmerColNames(kmerSize)
    IN  SumSeq([j \in 1..Len(cols) |-> sig[cols[j]].num])

\* C5 (as claimed): the signature is normalised by the window count, so that
\* for a sequence of length len >= k the entries sum to (windows without
\* ambiguous base) / (len - k + 1): every entry has the denominator den, and
\* sum(num) / den = clean / (len - k + 1).
C5_WindowNormalised ==
    (pc = "idle" /\ ~res.raised /\ Len(arg) >= kmerSize) =>
        /\ \A m \in DOMAIN res.sig : res.sig[m].den = Len(arg)
        /\ SigSum(res.sig) * (Len(arg) - kmerSize + 1) =
              Cardinality(CleanWindows(arg, kmerSize)) * Len(arg)

\* C6 (as claimed): the value getKSig returns under column c is the count of
\* the windows whose canonical form is c (over the divisor), for every c.
C6_ColumnAligned ==
    (pc = "idle" /\ ~res.raised) =>
        \A m \in DOMAIN res.sig : res.sig[m].num = sigCounts(arg, kmerSize)[m]

\* C7: the meta table appears in the file only when kms, contigs, bins and
\* coverage are there with their rows written, and a createDB that raised
\* leaves a file without a meta table.
C7_MetaLast ==
    /\ [][("meta" \notin DOMAIN db /\ "meta" \in DOMAIN db') =>
             /\ {"kms", "contigs", "bins", "coverage"} \subseteq DOMAIN db
             /\ Len(Rows("kms")) = Cardinality(DOMAIN contigNames)
             /\ Len(Rows("contigs")) = Cardinality(DOMAIN contigNames)
             /\ Len(Rows("coverage")) = Cardinality(DOMAIN contigNames)]_vars
    /\ [](ret = "raised" => (dbExists /\ "meta" \notin DOMAIN db))

\* createDB raised while parsing the BAM files, the last step before meta
C7_Witness ==
    /\ ret = "raised"
    /\ {"kms", "contigs", "bins", "coverage"} \subseteq DOMAIN db
    /\ Rows("contigs") # <<>>

ReplacePositions ==
    {"setBinStats_create", "setBinStats_append", "setBinStats_rename",
     "nukeBins_create_bins", "nukeBins_rename_bins", "nukeBins_remove_contigs",
     "nukeBins_create_contigs", "nukeBins_init", "nukeBins_rename_contigs"}

\* rows holds exactly one row per key of the dict u, with its value
IsBinRowsOf(rows, u) ==
    /\ Len(rows) = Cardinality(DOMAIN u)
    /\ {rows[i] : i \in 1..Len(rows)} =
          {[bid |-> b, numMembers |-> u[b]] : b \in DOMAIN u}

\* the rows of contigs with every bin assignment reset
NukedRows(rows) ==
    [i \in 1..Len(rows) |->
        [cid |-> rows[i].cid, bid |-> 0, length |-> rows[i].length, core |-> FALSE]]

\* C9: at every step of setBinStats and of nukeBins, a kill included, the
\* live bins table and the live contigs table each either keep their rows or
\* take, at the rename, the complete new rows.
C9_OldOrNew ==
    [][(pc \in ReplacePositions \/ pc' \in ReplacePositions) =>
          /\ {"bins", "contigs"} \subseteq DOMAIN db'
          /\ \/ db'["bins"] = db["bins"]
             \/ pc = "setBinStats_rename" /\ IsBinRowsOf(db'["bins"].rows, updates)
             \/ pc = "nukeBins_rename_bins" /\ db'["bins"].rows = <<>>
          /\ \/ db'["contigs"] = db["contigs"]
             \/ /\ pc = "nukeBins_rename_contigs"
                /\ db'["contigs"].rows = NukedRows(db["contigs"].rows)]_vars

\* setBinStats has filled tmp_bins in part while the live bins table still
\* holds the rows of an earlier update
C9_Witness ==
    /\ pc = "setBinStats_append"
    /\ todo # <<>>
    /\ Rows("tmp_bins") # <<>>
    /\ Rows("bins") # <<>>
    /\ Rows("bins") # Rows("tmp_bins")

BeforeBinsRename ==
    {"setBinStats_create", "setBinStats_append", "setBinStats_rename",
     "nukeBins_create_bins", "nukeBins_rename_bins"}

SetBinStatsPositions == {"setBinStats_create", "setBinStats_append", "setBinStats_rename"}

\* C10 (as claimed): up to the rename readers see the bins table as it was,
\* and a setBinStats(U) that follows a kill does not raise, leaves bins with
\* exactly the entries of U and leaves no tmp_ table in /meta.
C10_Original ==
    [][/\ pc' \in BeforeBinsRename => getBinStats(db') = getBinStats(db)
       /\ (pc \in SetBinStatsPositions /\ pc' = "idle") => ret' # "raised"
       /\ (pc = "setBinStats_rename" /\ ret' = "None") =>
             /\ IsBinRowsOf(db'["bins"].rows, updates)
             /\ getBinStats(db') = updates
             /\ DOMAIN db' \cap {"tmp_bins", "tmp_contigs"} = {}]_vars

\* C10 (amended): when setBinStats or nukeBins is killed after tmp_bins was
\* created and before it is renamed, readers see the bins table as it was,
\* and the next setBinStats(U) does not raise, leaves bins with exactly the
\* entries of U and leaves no tmp_bins; it leaves a tmp_contigs of a nukeBins
\* killed during its second replacement where it is.
C10_Recovery ==
    [][/\ pc' \in BeforeBinsRename => getBinStats(db') = getBinStats(db)
       /\ (pc \in SetBinStatsPositions /\ pc' = "idle") => ret' # "raised"
       /\ (pc = "setBinStats_rename" /\ ret' = "None") =>
             /\ IsBinRowsOf(db'["bins"].rows, updates)
             /\ getBinStats(db') = updates
             /\ "tmp_bins" \notin DOMAIN db'
             /\ ("tmp_contigs" \in DOMAIN db') = ("tmp_contigs" \in DOMAIN db)]_vars

\* the call before was killed with tmp_bins in the file, and setBinStats is
\* about to rename a freshly written tmp_bins
C10_Witness ==
    /\ pc = "setBinStats_rename"
    /\ ret \in {"setBinStats_append", "setBinStats_rename", "nukeBins_rename_bins"}
    /\ updates # <<>>
    /\ IsBinRowsOf(Rows("tmp_bins"), updates)

ContigRows(file) == file["contigs"].rows

\* C11: after setBins(U) has returned, the bid read back for every row i of U
\* is U[i]; no step of the call changes a row that U does not name, and for
\* the rows U names no step changes cid, length or core.
C11_SetBinsRoundTrip ==
    [][pc = "setBins_modify" =>
          /\ Len(ContigRows(db')) = Len(ContigRows(db))
          /\ \A i \in 1..Len(ContigRows(db)) :
                /\ (i - 1) \notin DOMAIN updates => ContigRows(db')[i] = ContigRows(db)[i]
                /\ ContigRows(db')[i].cid = ContigRows(db)[i].cid
                /\ ContigRows(db')[i].length = ContigRows(db)[i].length
                /\ ContigRows(db')[i].core = ContigRows(db)[i].core
          /\ (pc' = "idle" /\ ret' = "None") =>
                \A i \in DOMAIN updates :
                    getBins(db', "", <<i>>) = [raised |-> FALSE, value |-> <<updates[i]>>]]_vars

\* setBins has gone through an update of two rows and is about to return
C11_Witness ==
    /\ pc = "setBins_modify"
    /\ todo = <<>>
    /\ DOMAIN updates = {0, 1}
    /\ updates[0] # updates[1]
    /\ updates[1] # 0
    /\ Rows("contigs")[2].bid = updates[1]

\* C12 (as claimed): setBins installs its updates all at once: every step of
\* the call, the one at which it fails or is killed included, leaves contigs
\* as it was or leaves it with every update of U applied.
C12_AllOrNothing ==
    [][pc = "setBins_modify" =>
          \/ ContigRows(db') = ContigRows(db)
          \/ \A i \in DOMAIN updates :
                /\ i < Len(ContigRows(db'))
                /\ ContigRows(db')[i + 1].bid = updates[i]]_vars

NukeBinsPositions ==
    {"nukeBins_create_bins", "nukeBins_rename_bins", "nukeBins_remove_contigs",
     "nukeBins_create_contigs", "nukeBins_init", "nukeBins_rename_contigs"}

\* C13: when nukeBins returns, every row of contigs has bid 0, the bins table
\* has no row, and contigs has as many rows as before the call with the same
\* cid and length at every row (no earlier step of the call touches contigs).
C13_NukeBins ==
    [][/\ ((pc \in NukeBinsPositions \/ pc' \in NukeBinsPositions)
              /\ pc # "nukeBins_rename_contigs") => ContigRows(db') = ContigRows(db)
       /\ (pc = "nukeBins_rename_contigs" /\ pc' = "idle" /\ ret' = "None") =>
             /\ \A i \in 1..Len(ContigRows(db')) : ContigRows(db')[i].bid = 0
             /\ db'["bins"].rows = <<>>
             /\ Len(ContigRows(db')) = Len(ContigRows(db))
             /\ \A i \in 1..Len(ContigRows(db)) :
                   /\ ContigRows(db')[i].cid = ContigRows(db)[i].cid
                   /\ ContigRows(db')[i].length = ContigRows(db)[i].length]_vars

\* nukeBins is about to install the reset rows over a contigs table in which
\* a contig is binned
C13_Witness ==
    /\ pc = "nukeBins_rename_contigs"
    /\ \E i \in 1..numRows : Rows("contigs")[i].bid # 0
    /\ Len(Rows("tmp_contigs")) = numRows
    /\ numRows = 2

\* C14 (as claimed): when nukeBins returns, meta.numBins is 0.
C14_NumBinsReset ==
    [][(pc = "nukeBins_rename_contigs" /\ pc' = "idle" /\ ret' = "None") =>
          db'["meta"].rows[1].numBins = 0]_vars

\* createDB or an operation on the database has returned normally
Completed == pc = "idle" /\ "meta" \in DOMAIN db /\ ret \in {"True", "None"}

\* the number of rows of contigs that carry the bin id b
MembersOf(b) == Cardinality({i \in 1..numRows : Rows("contigs")[i].bid = b})

\* C15 (as claimed): after createDB and any completed operations, every
\* positive bid in contigs is a bid of the bins table, with numMembers the
\* number of rows of contigs that carry it.
C15_BinsMatchContigs ==
    Completed =>
        \A i \in 1..numRows :
            LET b == Rows("contigs")[i].bid
            IN  b > 0 => /\ b \in DOMAIN getBinStats(db)
                         /\ getBinStats(db)[b] = MembersOf(b)

\* C16 (as claimed): after createDB and any completed operations,
\* meta.numBins is the number of rows of the bins table.
C16_NumBinsIsRowCount ==
    Completed => Rows("meta")[1].numBins = Len(Rows("bins"))

\* a reader has returned
HasRead(reader) == pc = "idle" /\ ret = reader

\* the row numbers of contigs, counted from 0, whose row meets the condition
MatchingRows(condition) ==
    {i \in 0..(numRows - 1) :
        condition = "" \/ Satisfies(Rows("contigs")[i + 1], condition)}

\* C17: getConditionalIndicies returns exactly the row indices of contigs
\* whose row satisfies the condition, strictly ascending (so without
\* repetition); with the empty condition it returns 0..N_cons-1.
C17_SelectIndices ==
    HasRead("getConditionalIndicies") =>
        /\ ~res.raised
        /\ Range(res.value) = MatchingRows(arg.condition)
        /\ \A j \in 1..(Len(res.value) - 1) : res.value[j] < res.value[j + 1]
        /\ arg.condition = "" => res.value = [j \in 1..numRows |-> j - 1]

\* getConditionalIndicies has picked the second of two rows
C17_Witness ==
    /\ HasRead("getConditionalIndicies")
    /\ numRows = 2
    /\ arg.condition = "bid != 0"
    /\ res.value = <<1>>

\* the value a bulk reader returns for row i (counted from 0)
ValueAt(reader, i) ==
    CASE reader = "getCoverageProfiles" -> Rows("coverage")[i + 1]
      [] reader = "getKmerSigs" -> Rows("kms")[i + 1]
      [] reader = "getContigNames" -> Rows("contigs")[i + 1].cid
      [] reader = "getContigLengths" -> Rows("contigs")[i + 1].length
      [] reader = "getBins" -> Rows("contigs")[i + 1].bid

BulkReaders ==
    {"getCoverageProfiles", "getKmerSigs", "getContigNames", "getContigLengths", "getBins"}

\* C18 (as claimed): a bulk reader given an index vector I of rows of the
\* table, the empty vector included, returns |I| entries, entry j being the
\* value of row I[j].
C18_ReadByIndices ==
    \A reader \in BulkReaders :
        (HasRead(reader) /\ \A j \in 1..Len(arg.indicies) : arg.indicies[j] < numRows) =>
            /\ ~res.raised
            /\ Len(res.value) = Len(arg.indicies)
            /\ \A j \in 1..Len(arg.indicies) :
                  res.value[j] = ValueAt(reader, arg.indicies[j])

\* C19 (as claimed): for every contig row i and every BAM j, the coverage
\* stored for row i under the column of BAM j is the count of cid_i in BAM j
\* alone over its length there, and 0 when cid_i is no reference of BAM j.
C19_CoveragePerBam ==
    Created =>
        \A i \in 1..Len(Rows("coverage")) : \A j \in 1..Len(bamFiles) :
            Rows("coverage")[i][getBamDescriptor(bamFiles[j])] =
                CoverageIn(Rows("contigs")[i].cid, bamFiles[j])

\* the records of the contig file that carry the name n, by position
RecordsNamed(n) == {i \in 1..Len(FileRecs) : FileRecs[i].name = n}

LastRecordNamed(n) ==
    FileRecs[CHOOSE i \in RecordsNamed(n) : \A j \in RecordsNamed(n) : j <= i]

\* C20: records of the same name do not make createDB fail at the parse; the
\* database has one row per distinct name, with the length and the k-mer
\* signature of the last record of that name, and meta.numCons is the number
\* of distinct names.
C20_DuplicateNames ==
    /\ [][(/\ pc = "parse"
           /\ ~readfq(contigFile).raised
           /\ \A i \in 1..Len(FileRecs) : FileRecs[i].seq # <<>>) =>
              (pc' = "contigs" /\ ret' # "raised")]_vars
    /\ [](Created =>
            /\ Meta.numCons = Cardinality({FileRecs[i].name : i \in 1..Len(FileRecs)})
            /\ \A i \in 1..Len(FileRecs) :
                  LET n == FileRecs[i].name
                      rows == {r \in 1..numRows : Rows("contigs")[r].cid = n}
                  IN  /\ Cardinality(rows) = 1
                      /\ \A r \in rows :
                            /\ Rows("contigs")[r].length = Len(LastRecordNamed(n).seq)
                            /\ Rows("kms")[r] =
                                  getKSig(Upper(LastRecordNamed(n).seq),
                                          kmerSize, sigOrder).sig)

\* a database built from a file in which the name a occurs twice, with
\* sequences of length 2 and 3
C20_Witness ==
    /\ Created
    /\ contigFile = FileDup
    /\ numRows = 2
    /\ Rows("contigs")[1].cid = <<"a">>
    /\ Rows("contigs")[1].length = 3

\* readfq has been run over contigFile
Parsed == pc = "idle" /\ DOMAIN res = {"raised", "recs"}

IsHeader(line) == line[1] \in {">", "@"}

\* C21 (as claimed): when the first line of the input is no header line,
\* the parser fails; it does not drop the line and go on.
C21_FramingError ==
    (Parsed /\ contigFile # <<>> /\ ~IsHeader(contigFile[1])) => res.raised

\* a line without its line terminator, if it has one
StripNL(line) == IF line # <<>> /\ line[Len(line)] = NL THEN Chop(line) ELSE line

\* the file is one fasta record: a header line and then sequence lines only
OneFastaRecord ==
    /\ Len(contigFile) >= 1
    /\ contigFile[1][1] = ">"
    /\ \A i \in 2..Len(contigFile) : contigFile[i][1] \notin {">", "@", "+"}

\* C28 (as claimed): the sequence of a record is the concatenation of its
\* sequence lines with only the line terminators removed, also when the last
\* line of the input has no line terminator.
C28_SequenceKept ==
    (Parsed /\ OneFastaRecord) =>
        /\ ~res.raised
        /\ Len(res.recs) = 1
        /\ res.recs[1].seq =
              Concat([i \in 1..(Len(contigFile) - 1) |-> StripNL(contigFile[i + 1])])

\* what the claims about records speak of: names and sequences, in order
NameSeqs(recs) == [i \in 1..Len(recs) |-> <<recs[i].name, recs[i].seq>>]

\* the line of the separator when the file starts with a fastq record: a
\* header with '@', sequence lines, then a line with '+'; 0 otherwise
Separator ==
    IF /\ Len(contigFile) >= 3
       /\ contigFile[1][1] = "@"
       /\ \E s \in 2..Len(contigFile) :
             /\ contigFile[s][1] = "+"
             /\ \A i \in 2..(s - 1) : contigFile[i][1] \notin {">", "@", "+"}
    THEN CHOOSE s \in 2..Len(contigFile) : contigFile[s][1] \in {">", "@", "+"}
                     /\ \A i \in 2..(s - 1) : contigFile[i][1] \notin {">", "@", "+"}
    ELSE 0

FirstSeq == Concat([i \in 1..(Separator - 2) |-> StripNL(contigFile[i + 1])])

\* the characters of quality in the lines after the separator up to line q
QualityUpTo(q) ==
    SumSeq([i \in 1..(q - Separator) |-> Len(StripNL(contigFile[Separator + i]))])

\* the lines at which the quality read so far is as long as the sequence
QualityEnds ==
    {q \in (Separator + 1)..Len(contigFile) : QualityUpTo(q) >= Len(FirstSeq)}

\* the lines after the quality block of the first record
AfterQuality ==
    IF QualityEnds = {} THEN <<>>
    ELSE LET q == CHOOSE q \in QualityEnds : \A r \in QualityEnds : q <= r
         IN  SubSeq(contigFile, q + 1, Len(contigFile))

\* C29: when the file starts with a fastq record, the lines after its '+'
\* line are quality until they hold as many characters as the sequence,
\* whatever their first character; the record is emitted once, and what
\* follows it are the records of the lines after the quality block.
C29_QualityBlock ==
    (Parsed /\ Separator # 0) =>
        /\ res.raised = readfq(AfterQuality).raised
        /\ NameSeqs(res.recs) =
              <<<<FirstToken(Tail(StripNL(contigFile[1]))), FirstSeq>>>>
                  \o NameSeqs(readfq(AfterQuality).recs)

\* a fastq record whose quality line starts with '@', followed by a fasta
\* record
C29_Witness ==
    /\ Parsed
    /\ contigFile = << <<"@", "b", NL>>, <<"A", "N", NL>>, <<"+", NL>>,
                       <<"@", "b", NL>>, <<">", "a", NL>>, <<"A", "N", NL>> >>
    /\ NameSeqs(res.recs) = << <<<<"b">>, <<"A", "N">>>>, <<<<"a">>, <<"A", "N">>>> >>

\* getKSig has been applied to arg
SigTaken == pc = "idle" /\ DOMAIN res = {"raised", "sig"}

\* C22 (as claimed): getKSig raises for no input string, the empty string
\* included, and returns one entry per canonical column.
C22_NoFailure ==
    SigTaken =>
        /\ ~res.raised
        /\ DOMAIN res.sig = Range(makeKmerColNames(kmerSize))

\* C27: kmerCols for length k is strictly ascending, holds exactly the
\* canonical forms min(m, revcomp(m)) of the 4^k k-mers m, no element is
\* greater than its reverse complement, and for k = 2 it has 10 elements.
C27_CanonicalColumns ==
    LET cols == makeKmerColNames(kmerSize)
        Canonical(m) == IF LexLess(revComp(m), m) THEN revComp(m) ELSE m
    IN  /\ \A j \in 1..(Len(cols) - 1) : LexLess(cols[j], cols[j + 1])
        /\ Range(cols) = {Canonical(m) : m \in [1..kmerSize -> {"A", "C", "G", "T"}]}
        /\ \A j \in 1..Len(cols) : ~LexLess(revComp(cols[j]), cols[j])
        /\ kmerSize = 2 => Len(cols) = 10

\* a signature over the columns for k = 2 has been computed
C27_Witness ==
    /\ SigTaken
    /\ kmerSize = 2
    /\ ~res.raised
    /\ Cardinality(DOMAIN res.sig) = 10
    /\ <<"A", "T">> \in DOMAIN res.sig

\* C23 (as claimed): when an operation has ended, by a return or by an error
\* raised at any step, the process holds no file open.
C23_HandlesReleased ==
    pc = "idle" => handles = {}

\* the step has set one field of the single meta row and nothing else
MetaOnly(field, value) ==
    /\ Len(db'["meta"].rows) = 1
    /\ db'["meta"].rows[1][field] = value
    /\ \A f \in MetaCols \ {field} : db'["meta"].rows[1][f] = db["meta"].rows[1][f]
    /\ db'["meta"].cols = db["meta"].cols
    /\ DOMAIN db' = DOMAIN db
    /\ \A t \in DOMAIN db \ {"meta"} : db'[t] = db[t]

\* C24: setNumBins, setClustered and setComplete each leave the meta table
\* with one row in which their own field holds the given value and every
\* other field its previous value, and change no other table.
C24_MetaSetters ==
    [][/\ \A n \in 0..MaxBid : SetNumBins(n) => MetaOnly("numBins", n)
       /\ \A state \in BOOLEAN : SetClustered(state) => MetaOnly("clustered", state)
       /\ \A state \in BOOLEAN : SetComplete(state) => MetaOnly("complete", state)]_vars

\* two setters have been called on a database with bins
C24_Witness ==
    /\ pc = "idle"
    /\ "meta" \in DOMAIN db
    /\ nOps = 2
    /\ Rows("meta")[1].numBins = 2
    /\ Rows("meta")[1].complete
    /\ ~Rows("meta")[1].clustered
    /\ Rows("meta")[1].numCons = 2

\* C25 (as claimed): a database opened through getConditionalIndicies has
\* been brought to the current format, so its meta table carries a
\* formatVersion field afterwards.
C25_UpgradedOnSelect ==
    HasRead("getConditionalIndicies") =>
        /\ "meta" \in DOMAIN db
        /\ "formatVersion" \in db["meta"].cols

\* the number of names a comma-separated string lists, none when it is empty
NamesIn(s) == IF s = <<>> THEN 0 ELSE Commas(s) + 1

\* C26 (as claimed): the coverage table of a created database has one column
\* per input BAM, as many as meta.numStoits and, the names holding no comma,
\* as the names listed in meta.stoitColNames.
C26_ColumnPerBam ==
    Created =>
        /\ Cardinality(db["coverage"].cols) = Len(bamFiles)
        /\ Cardinality(db["coverage"].cols) = Meta.numStoits
        /\ (\A i \in 1..Len(bamFiles) : Commas(getBamDescriptor(bamFiles[i])) = 0)
               => Cardinality(db["coverage"].cols) = NamesIn(Meta.stoitColNames)

\* C30 (as claimed): after updateValidBinIds(updates) a bid with update 0 is
\* absent from the bins table, whether it was there before or not, any other
\* bid of updates is there with its update as numMembers, a bin not named in
\* updates keeps its numMembers, and meta.numBins is the number of bins.
C30_UpdateValidBinIds ==
    (pc = "idle" /\ ret = "updateValidBinIds") =>
        LET bins == getBinStats(db)
        IN  /\ \A bid \in DOMAIN arg :
                    IF arg[bid] = 0
                    THEN bid \notin DOMAIN bins
                    ELSE bid \in DOMAIN bins /\ bins[bid] = arg[bid]
            /\ \A bid \in DOMAIN res \ DOMAIN arg :
                    bid \in DOMAIN bins /\ bins[bid] = res[bid]
            /\ Meta.numBins = Cardinality(DOMAIN bins)
            /\ Meta.numBins = Len(Rows("bins"))
====
